---- MODULE Spec2Model ----
(***************************************************************************)
(* The invoice form of src/components/invoice-form.tsx as a state machine. *)
(*                                                                         *)
(* State: the line-item collection (useState, line 82), the form values    *)
(* (useForm, lines 98-120), the other component state (lines 93-96) and    *)
(* the values the last render computed (lines 122-131), together with the  *)
(* collection that render's handlers closed over.  Every handler ends in a *)
(* state setter, and React renders the component again before the next     *)
(* event is handled, so an action is the handler followed by the render;   *)
(* SpecBatch alone separates the two.  What the component hands to its     *)
(* surroundings (the save acknowledgement, the mail link, the print        *)
(* dialog, the PDF file) is recorded in variables of its own.              *)
(*                                                                         *)
(* Numbers.  Quantities, rates, item totals and percentages are integers.  *)
(* A value the code obtains by dividing by 100 (lines 128-129) is held in  *)
(* hundredths, so that the division is exact: 12.5 is held as 1250.  The   *)
(* render output therefore holds taxAmount, discountAmount, total and      *)
(* balanceDue in hundredths and subtotal in units.                         *)
(*                                                                         *)
(* Identifiers.  uuidv4() is modelled as a counter: every draw differs     *)
(* from all earlier draws.  Identifier 0 stands for a string that is not   *)
(* a generated identifier.                                                 *)
(***************************************************************************)
EXTENDS Integers, Sequences, FiniteSets, TLC

VARIABLES items, nextId, form, view, closure,
          pricingMode, logoUrl, reader, activeTab,
          errors, submitted, mail, printed, pdf, formatted

\* useState of lines 93-96 and the pending FileReader of lines 185-189
shell == <<pricingMode, logoUrl, reader, activeTab>>

\* the form's error state, what was handed to the platform, and the last
\* text that formatCurrency returned when it is called on its own
effects == <<errors, submitted, mail, printed, pdf, formatted>>

vars == <<items, nextId, form, view, closure, shell, effects>>

(***************************************************************************)
(* Bounds of the model.                                                    *)
(***************************************************************************)
MaxItems == 2
MaxIds == 3
MaxRenders == 2

(***************************************************************************)
(* Input values handed to the handlers.                                    *)
(***************************************************************************)
Descriptions == {"Landing page"}
ServiceTypes == {"SEO"}
Quantities == {10}
Rates == {25}
Totals == {7}

\* keyof InvoiceItem
ItemFields == {"id", "description", "serviceType", "quantity", "rate", "total"}

\* Identifiers a caller can pass: 0 and those not drawn yet match no item.
CallIds == 0..MaxIds

\* Text typed into a number input, as a sequence of characters.
PercentTexts == {<<>>, <<"5">>, <<"1", "0">>, <<"1", "0", "0">>}
PaidTexts == {<<>>, <<"5", "0">>}

\* Values entered in the other fields of the form, one for each field.
DraftInputs(name) ==
  CASE name = "clientName" -> {"Al"}
    [] name = "companyName" -> {"ABC Company"}
    [] name = "email" -> {<<"a", "@", "b", ".", "c", "o">>}
    [] name = "phone" -> {"+1 234 567 8900"}
    [] name = "billingAddress" -> {"123 Main St"}
    [] name = "invoiceNumber" -> {"INV-7"}
    [] name = "invoiceDate" -> {"2025-02-01"}
    [] name = "dueDate" -> {"2025-03-01"}
    [] name = "paymentTerms" -> {"Net 7"}
    [] name = "notes" -> {""}
    [] name = "currency" -> {"EUR"}

DraftFields ==
  {"clientName", "companyName", "email", "phone", "billingAddress",
   "invoiceNumber", "invoiceDate", "dueDate", "paymentTerms", "notes", "currency"}

\* Values entered before a submission: for every rule of the schema one value
\* that breaks it or one that satisfies it, whichever the default is not.
notAnEmail == <<"n", "o", "t", "-", "a", "n", "-", "e", "m", "a", "i", "l">>

SubmitInputs(name) ==
  CASE name = "clientName" -> {"A", "Al"}
    [] name = "email" -> {notAnEmail, <<"a", "@", "b", ".", "c", "o">>}
    [] name = "phone" -> {"1234567890"}
    [] name = "billingAddress" -> {"12345"}
    [] name = "invoiceNumber" -> {""}
    [] name = "invoiceDate" -> {""}
    [] name = "dueDate" -> {""}
    [] name = "paymentTerms" -> {""}
    [] name = "currency" -> {""}

SubmitFields ==
  {"clientName", "email", "phone", "billingAddress", "invoiceNumber",
   "invoiceDate", "dueDate", "paymentTerms", "currency"}

SubmitTaxTexts == {<<"1", "0", "0">>, <<"2", "0", "0">>, <<"-", "5">>}
SubmitDiscountTexts == {<<"1", "0", "1">>}
SubmitPaidTexts == {<<"-", "1">>}

\* Texts typed into the quantity and rate inputs of an item.
NumberTexts == {<<>>, <<"1", "0">>, <<"-", "5">>, <<"a", "b", "c">>, <<"2", "x">>}

ClientFields == {"clientName", "email", "phone", "billingAddress"}

\* Files chosen in the logo input.
Files == {"logo.png"}

(***************************************************************************)
(* Form values: a number (the default values) or the text of an input.     *)
(***************************************************************************)
Num(n) == [t |-> "number", n |-> n, s |-> <<>>]
Str(s) == [t |-> "string", n |-> 0, s |-> s]

Digit(c) ==
  CASE c = "0" -> 0 [] c = "1" -> 1 [] c = "2" -> 2 [] c = "3" -> 3 [] c = "4" -> 4
    [] c = "5" -> 5 [] c = "6" -> 6 [] c = "7" -> 7 [] c = "8" -> 8 [] c = "9" -> 9

\* The decimal value of a string of digits.
RECURSIVE Decimal(_)
Decimal(s) ==
  IF s = <<>> THEN 0 ELSE 10 * Decimal(SubSeq(s, 1, Len(s) - 1)) + Digit(s[Len(s)])

\* The value of the text of a number input: digits after an optional sign;
\* the empty string converts to 0.
StringToNumber(s) ==
  IF s = <<>> THEN 0
  ELSE IF Head(s) = "-" THEN 0 - Decimal(Tail(s))
  ELSE Decimal(s)

\* Number.parseFloat on a text without a fraction: the longest prefix made of
\* an optional sign and digits; NaN when that prefix holds no digit.
RECURSIVE DigitPrefix(_)
DigitPrefix(s) ==
  IF s = <<>> \/ Head(s) \notin {"0", "1", "2", "3", "4", "5", "6", "7", "8", "9"}
  THEN <<>>
  ELSE <<Head(s)>> \o DigitPrefix(Tail(s))

NaN == [nan |-> TRUE, n |-> 0]

parseFloat(s) ==
  LET negative == s # <<>> /\ Head(s) = "-"
      digits == DigitPrefix(IF negative THEN Tail(s) ELSE s)
  IN IF digits = <<>> THEN NaN
     ELSE [nan |-> FALSE,
           n |-> IF negative THEN 0 - Decimal(digits) ELSE Decimal(digits)]

\* Number.parseFloat(text) || 0: NaN and 0 are falsy
parsedOrZero(s) == IF parseFloat(s).nan THEN 0 ELSE parseFloat(s).n

\* Number(v), and the conversion the operators * and / apply to an operand.
ToNumber(v) == IF v.t = "number" THEN v.n ELSE StringToNumber(v.s)

\* The e-mail address is a sequence of characters, the other texts are strings.
defaultNotes == "Thank you for your business!"

defaultValues ==
  [clientName |-> "", companyName |-> "", email |-> <<>>, phone |-> "",
   billingAddress |-> "", invoiceNumber |-> "INV-4821",
   invoiceDate |-> "2025-01-01", dueDate |-> "2025-01-31",
   paymentTerms |-> "Net 30",
   taxRate |-> Num(0), discount |-> Num(0), paidAmount |-> Num(0),
   notes |-> defaultNotes, currency |-> "USD"]

(***************************************************************************)
(* Derived values, computed by every render.                               *)
(***************************************************************************)
\* reduce as it would be with the total recomputed from quantity and rate
RECURSIVE reduceProducts(_, _)
reduceProducts(its, acc) ==
  IF its = <<>> THEN acc
  ELSE reduceProducts(Tail(its), acc + Head(its).quantity * Head(its).rate)

RECURSIVE reduce(_, _)
reduce(its, acc) ==
  IF its = <<>> THEN acc ELSE reduce(Tail(its), acc + Head(its).total)

subtotal(its) == reduce(its, 0)

\* (subtotal * watchTaxRate) / 100, in hundredths
taxAmount(its, f) == subtotal(its) * ToNumber(f.taxRate)

\* (subtotal * watchDiscount) / 100, in hundredths
discountAmount(its, f) == subtotal(its) * ToNumber(f.discount)

\* total as it would be with the discount taken on subtotal + taxAmount
totalCompounded(its, f) ==
  ((100 * subtotal(its) + taxAmount(its, f)) * (100 - ToNumber(f.discount))) \div 100

\* subtotal + taxAmount - discountAmount, in hundredths
total(its, f) == 100 * subtotal(its) + taxAmount(its, f) - discountAmount(its, f)

\* total - Number(form.getValues("paidAmount")), in hundredths
balanceDue(its, f) == total(its, f) - 100 * ToNumber(f.paidAmount)

Render(its, f) ==
  [subtotal |-> subtotal(its),
   taxAmount |-> taxAmount(its, f),
   discountAmount |-> discountAmount(its, f),
   total |-> total(its, f),
   balanceDue |-> balanceDue(its, f)]

(***************************************************************************)
(* formSchema: the names of the fields whose rule fails.                   *)
(***************************************************************************)
\* z.string().email(): one "@" after a non-empty local part, then labels
\* separated by ".", none of them empty, the last of two characters or more
isEmail(s) ==
  \E i \in 2..Len(s) :
    /\ {k \in 1..Len(s) : s[k] = "@"} = {i}
    /\ LET domain == SubSeq(s, i + 1, Len(s))
           dots == {k \in 1..Len(domain) : domain[k] = "."}
       IN /\ dots # {}
          /\ \A k \in dots : k > 1 /\ k + 2 <= Len(domain) /\ (k + 1) \notin dots

\* the schema without the rule on the e-mail address
formSchemaAnyEmail(f) ==
  {name \in {"clientName"} : Len(f.clientName) < 2}
    \cup {name \in {"phone"} : Len(f.phone) < 10}
    \cup {name \in {"billingAddress"} : Len(f.billingAddress) < 5}
    \cup {name \in {"invoiceNumber", "invoiceDate", "dueDate", "paymentTerms"} :
           Len(f[name]) < 1}
    \cup {name \in {"taxRate", "discount"} :
           ToNumber(f[name]) < 0 \/ ToNumber(f[name]) > 100}
    \cup {name \in {"paidAmount"} : ToNumber(f.paidAmount) < 0}
    \cup {name \in {"currency"} : Len(f.currency) = 0}

formSchema(f) ==
  {name \in {"clientName"} : Len(f.clientName) < 2}
    \cup {name \in {"email"} : ~isEmail(f.email)}
    \cup {name \in {"phone"} : Len(f.phone) < 10}
    \cup {name \in {"billingAddress"} : Len(f.billingAddress) < 5}
    \cup {name \in {"invoiceNumber", "invoiceDate", "dueDate", "paymentTerms"} :
           Len(f[name]) < 1}
    \cup {name \in {"taxRate", "discount"} :
           ToNumber(f[name]) < 0 \/ ToNumber(f[name]) > 100}
    \cup {name \in {"paidAmount"} : ToNumber(f.paidAmount) < 0}
    \cup {name \in {"currency"} : Len(f.currency) = 0}

\* After a submission a changed field is validated again (reValidateMode
\* "onChange"): its error is set or cleared, the other errors stay.
revalidated(errs, name, f, sub) ==
  IF sub = "none" THEN errs
  ELSE (errs \ {name}) \cup ({name} \cap formSchema(f))

(***************************************************************************)
(* formatCurrency.  A number is given in hundredths.                       *)
(***************************************************************************)
undefinedValue == [t |-> "undefined", n |-> 0, s |-> <<>>]

\* Amounts in hundredths: -1.05 .. 1.05, 262.50 and 1234.50; texts; undefined.
Amounts ==
  {Num(h) : h \in (0 - 105)..105} \cup {Num(26250), Num(123450)}
    \cup {Str(<<>>), Str(<<"5", "0">>), undefinedValue}

Codes == {"USD", "EUR", "GBP", "PKR", "XYZ", ""}

\* currencySymbols[code]: "undefined" stands for the missing entry
currencySymbols(code) ==
  CASE code = "USD" -> "$"
    [] code = "EUR" -> "€"
    [] code = "GBP" -> "£"
    [] code = "PKR" -> "₨"
    [] OTHER -> "undefined"

\* n.toFixed(2) of a number of hundredths h
toFixed2(h) ==
  LET a == IF h < 0 THEN 0 - h ELSE h
      cents == a % 100
  IN (IF h < 0 THEN "-" ELSE "") \o ToString(a \div 100) \o "." \o
     (IF cents < 10 THEN "0" \o ToString(cents) ELSE ToString(cents))

\* formatCurrency as it would be without the fallback symbol
formatCurrencyNoFallback(amount, watchCurrency) ==
  LET numAmount == IF amount.t = "number" THEN amount.n ELSE 0
  IN currencySymbols(watchCurrency) \o toFixed2(numAmount)

formatCurrency(amount, watchCurrency) ==
  LET numAmount == IF amount.t = "number" THEN amount.n ELSE 0
      symbol == IF currencySymbols(watchCurrency) = "undefined"
                THEN "$" ELSE currencySymbols(watchCurrency)
  IN symbol \o toFixed2(numAmount)

(***************************************************************************)
(* The handlers, as functions of the collection the render closed over.    *)
(***************************************************************************)
initialItems(id) ==
  <<[id |-> id, description |-> "", serviceType |-> "Website Development",
     quantity |-> 1, rate |-> 0, total |-> 0]>>

\* addItem as it would be with a zero quantity in the new item
addItemZeroQuantity(its, id) ==
  its \o <<[id |-> id, description |-> "", serviceType |-> "Website Development",
            quantity |-> 0, rate |-> 0, total |-> 0]>>

\* addItem as it would be with the new item placed first
addItemFirst(its, id) ==
  <<[id |-> id, description |-> "", serviceType |-> "Website Development",
     quantity |-> 1, rate |-> 0, total |-> 0]>> \o its

addItem(its, id) ==
  its \o <<[id |-> id, description |-> "", serviceType |-> "Website Development",
            quantity |-> 1, rate |-> 0, total |-> 0]>>

removeItem(its, id) == SelectSeq(its, LAMBDA item : item.id # id)

\* updatedItem as it would be with the total taken from the item before the edit
updatedItemStaleTotal(item, field, value) ==
  LET updated == [item EXCEPT ![field] = value]
  IN IF field = "quantity" \/ field = "rate"
     THEN [updated EXCEPT !.total = item.quantity * item.rate]
     ELSE updated

updatedItem(item, field, value) ==
  LET updated == [item EXCEPT ![field] = value]
  IN IF field = "quantity" \/ field = "rate"
     THEN [updated EXCEPT !.total = updated.quantity * updated.rate]
     ELSE updated

\* updateItem as it would be without the test of the identifier
updateItemEvery(its, id, field, value) ==
  [i \in 1..Len(its) |-> updatedItem(its[i], field, value)]

updateItem(its, id, field, value) ==
  [i \in 1..Len(its) |->
     IF its[i].id = id THEN updatedItem(its[i], field, value) ELSE its[i]]

\* resetItems as it would be if the collection were kept and only its first
\* item replaced
resetItemsKeepRest(id) ==
  <<[id |-> id, description |-> "", serviceType |-> "Website Development",
     quantity |-> 1, rate |-> 0, total |-> 0]>> \o
  (IF items = <<>> THEN <<>> ELSE Tail(items))

resetItems(id) ==
  <<[id |-> id, description |-> "", serviceType |-> "Website Development",
     quantity |-> 1, rate |-> 0, total |-> 0]>>

\* readAsDataURL: the data URL of a file
dataUrl(file) == "data:" \o file

\* The values a caller can pass for a field of an InvoiceItem.
FieldValues(field) ==
  CASE field = "id" -> 0..(nextId - 1)
    [] field = "description" -> Descriptions
    [] field = "serviceType" -> ServiceTypes
    [] field = "quantity" -> Quantities
    [] field = "rate" -> Rates
    [] field = "total" -> Totals

(***************************************************************************)
(* Initial state and actions.                                              *)
(***************************************************************************)
\* generatePDF: for each call waiting for html2canvas the invoice number the
\* preview showed when the element was handed over, the name of the file
\* saved last, and whether the last call returned at once for want of the
\* element
noPdf == [pending |-> <<>>, saved |-> "none", returned |-> FALSE]

\* nothing handed to the mail client yet
noMail ==
  [sent |-> FALSE, to |-> <<>>, invoiceNumber |-> "", clientName |-> "",
   total |-> "", dueDate |-> ""]

\* the element with id "invoice-preview" is in the document: the content of
\* the preview tab is mounted only while that tab is the active one
previewElement(tab) == tab = "preview"

\* generatePDF up to its await, as it would be without the test of the element
generatePDFUnguarded(p, tab, shown) ==
  [p EXCEPT !.pending = Append(@, shown), !.returned = FALSE]

\* generatePDF up to its await
generatePDF(p, tab, shown) ==
  IF ~previewElement(tab) THEN [p EXCEPT !.returned = TRUE]
  ELSE [p EXCEPT !.pending = Append(@, shown), !.returned = FALSE]

\* pdf.save after the await of the i-th waiting call: the name is made from
\* the invoice number in f
pdfSave(p, i, f) ==
  [p EXCEPT !.pending = SubSeq(@, 1, i - 1) \o SubSeq(@, i + 1, Len(@)),
            !.saved = "Invoice-" \o f.invoiceNumber \o ".pdf"]

\* the Amount Paid row of the payment summary: formatCurrency(watchPaidAmount),
\* a number of the form being a number of units
amountPaidRow(f) ==
  formatCurrency(IF f.paidAmount.t = "number" THEN Num(100 * f.paidAmount.n)
                 ELSE f.paidAmount, f.currency)

\* formatCurrency not called yet
notFormatted ==
  [called |-> FALSE, amount |-> undefinedValue, currency |-> "", text |-> ""]

Init ==
  /\ items = initialItems(1)
  /\ nextId = 2
  /\ form = defaultValues
  /\ view = Render(initialItems(1), defaultValues)
  /\ closure = initialItems(1)
  /\ pricingMode = "hourly"
  /\ logoUrl = ""
  /\ reader = "none"
  /\ activeTab = "edit"
  /\ errors = {}
  /\ submitted = "none"
  /\ mail = noMail
  /\ printed = FALSE
  /\ pdf = noPdf
  /\ formatted = notFormatted

AddItem ==
  /\ Len(items) < MaxItems
  /\ nextId <= MaxIds
  /\ items' = addItem(items, nextId)
  /\ nextId' = nextId + 1
  /\ form' = form
  /\ view' = Render(items', form')
  /\ closure' = items'
  /\ UNCHANGED <<shell, effects>>

RemoveItem(id) ==
  /\ items' = removeItem(items, id)
  /\ UNCHANGED <<nextId, form>>
  /\ view' = Render(items', form')
  /\ closure' = items'
  /\ UNCHANGED <<shell, effects>>

UpdateItem(id, field, value) ==
  /\ items' = updateItem(items, id, field, value)
  /\ UNCHANGED <<nextId, form>>
  /\ view' = Render(items', form')
  /\ closure' = items'
  /\ UNCHANGED <<shell, effects>>

ResetForm ==
  /\ nextId <= MaxIds
  /\ form' = defaultValues
  /\ errors' = {}
  /\ submitted' = "none"
  /\ items' = resetItems(nextId)
  /\ nextId' = nextId + 1
  /\ logoUrl' = ""
  /\ view' = Render(items', form')
  /\ closure' = items'
  /\ UNCHANGED <<pricingMode, reader, activeTab, mail, printed, pdf, formatted>>

\* field.onChange of a text input, a textarea or a select
SetField(name, value) ==
  /\ form' = [form EXCEPT ![name] = value]
  /\ errors' = revalidated(errors, name, form', submitted)
  /\ UNCHANGED <<items, nextId, closure, shell, submitted, mail, printed, pdf,
                 formatted>>
  /\ view' = Render(items', form')

\* the switch as it would be if a change of mode also cleared the tax rate
SetPricingModeClearingTax(checked) ==
  /\ pricingMode' = IF checked THEN "item" ELSE "hourly"
  /\ form' = [form EXCEPT !.taxRate = Num(0)]
  /\ view' = Render(items, form')
  /\ UNCHANGED <<items, nextId, closure, logoUrl, reader, activeTab, effects>>

\* onCheckedChange of the pricing-mode switch
SetPricingMode(checked) ==
  /\ pricingMode' = IF checked THEN "item" ELSE "hourly"
  /\ UNCHANGED <<items, nextId, form, view, closure, logoUrl, reader, activeTab,
                 effects>>

\* formatCurrency called on its own, with the currency the render watches
FormatCurrency(amount, code) ==
  /\ formatted' = [called |-> TRUE, amount |-> amount, currency |-> code,
                   text |-> formatCurrency(amount, code)]
  /\ UNCHANGED <<items, nextId, form, view, closure, shell,
                 errors, submitted, mail, printed, pdf>>

\* handleLogoUpload: with a file chosen, a read is started
HandleLogoUpload(file) ==
  /\ reader' = file
  /\ UNCHANGED <<items, nextId, form, view, closure, pricingMode, logoUrl,
                 activeTab, effects>>

\* reader.onload: the read ends and the logo is set
ReaderLoad ==
  /\ reader # "none"
  /\ logoUrl' = dataUrl(reader)
  /\ reader' = "none"
  /\ UNCHANGED <<items, nextId, form, view, closure, pricingMode, activeTab,
                 effects>>

SetTaxRate(text) ==
  /\ form' = [form EXCEPT !.taxRate = Str(text)]
  /\ errors' = revalidated(errors, "taxRate", form', submitted)
  /\ UNCHANGED <<items, nextId, closure, shell, submitted, mail, printed, pdf,
                 formatted>>
  /\ view' = Render(items', form')

SetDiscount(text) ==
  /\ form' = [form EXCEPT !.discount = Str(text)]
  /\ errors' = revalidated(errors, "discount", form', submitted)
  /\ UNCHANGED <<items, nextId, closure, shell, submitted, mail, printed, pdf,
                 formatted>>
  /\ view' = Render(items', form')

SetPaidAmount(text) ==
  /\ form' = [form EXCEPT !.paidAmount = Str(text)]
  /\ errors' = revalidated(errors, "paidAmount", form', submitted)
  /\ UNCHANGED <<items, nextId, closure, shell, submitted, mail, printed, pdf,
                 formatted>>
  /\ view' = Render(items', form')

\* onChange of the quantity input of an item
QuantityInput(id, text) == UpdateItem(id, "quantity", parsedOrZero(text))

\* onChange of the rate input of an item
RateInput(id, text) == UpdateItem(id, "rate", parsedOrZero(text))

\* onValueChange of the tabs
SetActiveTab(tab) ==
  /\ activeTab' = tab
  /\ UNCHANGED <<items, nextId, form, view, closure, pricingMode, logoUrl, reader,
                 effects>>

\* generatePDF, from the click to the return or to the await of html2canvas
GeneratePDF ==
  /\ previewElement(activeTab) => Len(pdf.pending) < MaxRenders
  /\ pdf' = generatePDF(pdf, activeTab, form.invoiceNumber)
  /\ UNCHANGED <<items, nextId, form, view, closure, shell, errors, submitted,
                 mail, printed, formatted>>

\* generatePDF after the await: the canvas is put on a page and the file is
\* saved under the invoice number the form holds at that moment
PdfSave(i) ==
  /\ i \in 1..Len(pdf.pending)
  /\ pdf' = pdfSave(pdf, i, form)
  /\ UNCHANGED <<items, nextId, form, view, closure, shell, errors, submitted,
                 mail, printed, formatted>>

\* emailInvoice: the mailto address is built from the form values and the
\* total of the render, and handed to window.location
EmailInvoice ==
  /\ mail' = [sent |-> TRUE, to |-> form.email,
              invoiceNumber |-> form.invoiceNumber,
              clientName |-> form.clientName,
              total |-> formatCurrency(Num(view.total), form.currency),
              dueDate |-> form.dueDate]
  /\ UNCHANGED <<items, nextId, form, view, closure, shell, errors, submitted,
                 printed, pdf, formatted>>

\* onClick of the print buttons: window.print()
PrintInvoice ==
  /\ printed' = TRUE
  /\ UNCHANGED <<items, nextId, form, view, closure, shell, errors, submitted,
                 mail, pdf, formatted>>

\* The handlers called without a render in between: each computes the next
\* collection from the items of the render it belongs to and hands it to
\* setItems; the state holds the value set last.
AddItemCall ==
  /\ Len(closure) < MaxItems
  /\ nextId <= MaxIds
  /\ items' = addItem(closure, nextId)
  /\ nextId' = nextId + 1
  /\ UNCHANGED <<form, view, closure, shell, effects>>

RemoveItemCall(id) ==
  /\ items' = removeItem(closure, id)
  /\ UNCHANGED <<nextId, form, view, closure, shell, effects>>

UpdateItemCall(id, field, value) ==
  /\ items' = updateItem(closure, id, field, value)
  /\ UNCHANGED <<nextId, form, view, closure, shell, effects>>

\* the component renders again: the handlers now close over the state
Rerender ==
  /\ closure' = items
  /\ view' = Render(items, form)
  /\ UNCHANGED <<items, nextId, form, shell, effects>>

\* form.handleSubmit(onSubmit): the values are validated against the schema;
\* with no issue onSubmit runs and acknowledges the save, otherwise the
\* failing fields are flagged and onSubmit is not called
HandleSubmit ==
  /\ errors' = formSchema(form)
  /\ submitted' = IF formSchema(form) = {} THEN "saved" ELSE "rejected"
  /\ UNCHANGED <<items, nextId, form, view, closure, shell, mail, printed, pdf,
                 formatted>>

(***************************************************************************)
(* Spec: the line-item handlers called in any order with any arguments,    *)
(* updateItem on the service type and on the three numeric fields.         *)
(***************************************************************************)
SpecFields == {"serviceType", "quantity", "rate", "total"}

Next ==
  \/ AddItem
  \/ \E id \in CallIds : RemoveItem(id)
  \/ \E id \in CallIds, field \in SpecFields :
       \E value \in FieldValues(field) : UpdateItem(id, field, value)
  \/ ResetForm

Spec == Init /\ [][Next]_vars

(***************************************************************************)
(* SpecIds: the same handlers, updateItem on the identifier, on the         *)
(* description and on the rate.                                            *)
(***************************************************************************)
IdsFields == {"id", "description", "rate"}

NextIds ==
  \/ AddItem
  \/ \E id \in CallIds : RemoveItem(id)
  \/ \E id \in CallIds, field \in IdsFields :
       \E value \in FieldValues(field) : UpdateItem(id, field, value)
  \/ ResetForm

SpecIds == Init /\ [][NextIds]_vars

(***************************************************************************)
(* SpecTotals: the line-item handlers together with edits of the tax rate, *)
(* the discount and the paid amount.                                       *)
(***************************************************************************)
NextTotals ==
  \/ AddItem
  \/ \E id \in CallIds : RemoveItem(id)
  \/ \E id \in CallIds, field \in {"quantity", "rate"} :
       \E value \in FieldValues(field) : UpdateItem(id, field, value)
  \/ \E text \in PercentTexts : SetTaxRate(text)
  \/ \E text \in PercentTexts : SetDiscount(text)
  \/ \E text \in PaidTexts : SetPaidAmount(text)
  \/ ResetForm

SpecTotals == Init /\ [][NextTotals]_vars

(***************************************************************************)
(* SpecDraft: edits of the text fields and of the pricing mode, and reset. *)
(***************************************************************************)
NextDraft ==
  \/ \E name \in DraftFields : \E value \in DraftInputs(name) : SetField(name, value)
  \/ \E checked \in BOOLEAN : SetPricingMode(checked)
  \/ ResetForm

SpecDraft == Init /\ [][NextDraft]_vars

(***************************************************************************)
(* SpecSubmit: the form is filled in, a line item is added, and the form   *)
(* is submitted.                                                           *)
(***************************************************************************)
NextSubmit ==
  \/ \E name \in SubmitFields : \E value \in SubmitInputs(name) :
       SetField(name, value)
  \/ \E text \in SubmitTaxTexts : SetTaxRate(text)
  \/ \E text \in SubmitDiscountTexts : SetDiscount(text)
  \/ \E text \in SubmitPaidTexts : SetPaidAmount(text)
  \/ AddItem
  \/ HandleSubmit

SpecSubmit == Init /\ [][NextSubmit]_vars

(***************************************************************************)
(* SpecPricing: SpecTotals together with the pricing-mode switch.          *)
(***************************************************************************)
NextPricing ==
  \/ NextTotals
  \/ \E checked \in BOOLEAN : SetPricingMode(checked)

SpecPricing == Init /\ [][NextPricing]_vars

(***************************************************************************)
(* SpecInputs: items are added and removed, and texts are typed into the   *)
(* quantity and rate inputs of the items shown.                            *)
(***************************************************************************)
NextInputs ==
  \/ AddItem
  \/ \E i \in 1..Len(items) : Len(items) > 1 /\ RemoveItem(items[i].id)
  \/ \E i \in 1..Len(items), text \in NumberTexts : QuantityInput(items[i].id, text)
  \/ \E i \in 1..Len(items), text \in NumberTexts : RateInput(items[i].id, text)
  \/ ResetForm

SpecInputs == Init /\ [][NextInputs]_vars

(***************************************************************************)
(* SpecExport: the client details and the invoice number are filled in,    *)
(* an item is priced, the tabs are switched, and the invoice is exported   *)
(* as a PDF file, as a mail and to the printer.                            *)
(***************************************************************************)
ExportFields == ClientFields \cup {"invoiceNumber"}

NextExport ==
  \/ \E name \in ExportFields : \E value \in DraftInputs(name) :
       SetField(name, value)
  \/ \E value \in Totals : UpdateItem(1, "total", value)
  \/ \E tab \in {"edit", "preview"} : SetActiveTab(tab)
  \/ GeneratePDF
  \/ \E i \in 1..MaxRenders : PdfSave(i)
  \/ EmailInvoice
  \/ PrintInvoice

SpecExport == Init /\ [][NextExport]_vars

(***************************************************************************)
(* SpecBatch: the line-item handlers called one after another, the render  *)
(* coming at any moment between the calls.                                 *)
(***************************************************************************)
BatchFields == {"description", "rate"}

NextBatch ==
  \/ AddItemCall
  \/ \E id \in CallIds : RemoveItemCall(id)
  \/ \E id \in CallIds, field \in BatchFields :
       \E value \in FieldValues(field) : UpdateItemCall(id, field, value)
  \/ Rerender

SpecBatch == Init /\ [][NextBatch]_vars

(***************************************************************************)
(* SpecCurrency: the client details are filled in, any currency code is    *)
(* set, and the form is submitted.                                         *)
(***************************************************************************)
NextCurrency ==
  \/ \E name \in ClientFields : \E value \in DraftInputs(name) :
       SetField(name, value)
  \/ \E code \in Codes : SetField("currency", code)
  \/ HandleSubmit
  \/ ResetForm

SpecCurrency == Init /\ [][NextCurrency]_vars

(***************************************************************************)
(* SpecFormat: formatCurrency applied to amounts and currency codes.       *)
(***************************************************************************)
NextFormat == \E amount \in Amounts, code \in Codes : FormatCurrency(amount, code)

SpecFormat == Init /\ [][NextFormat]_vars

(***************************************************************************)
(* SpecLogo: the line-item handlers together with the upload of a logo.    *)
(***************************************************************************)
NextLogo ==
  \/ AddItem
  \/ \E id \in CallIds : RemoveItem(id)
  \/ \E id \in CallIds, field \in {"description", "rate"} :
       \E value \in FieldValues(field) : UpdateItem(id, field, value)
  \/ \E file \in Files : HandleLogoUpload(file)
  \/ ReaderLoad
  \/ ResetForm

SpecLogo == Init /\ [][NextLogo]_vars

(***************************************************************************)
(* Definitions used to state the properties.                               *)
(***************************************************************************)
Positions == 1..Len(items)

\* The sum of the totals of the items at positions 1..n of the collection.
RECURSIVE SumOfTotals(_)
SumOfTotals(n) == IF n = 0 THEN 0 ELSE SumOfTotals(n - 1) + items[n].total

(***************************************************************************)
(* C1: in every state reached by any sequence of addItem, removeItem(id),  *)
(* updateItem and resetForm calls, with any id argument, the collection    *)
(* holds at least one item.                                                *)
(***************************************************************************)
C1_NeverEmpty == Len(items) >= 1

(***************************************************************************)
(* C2: removeItem(id) called when the collection holds exactly one item,   *)
(* whose id is id, leaves the collection as it was.                        *)
(***************************************************************************)
C2_RemoveLastIsNoOp ==
  [][\A id \in CallIds :
       (Len(items) = 1 /\ items[1].id = id /\ RemoveItem(id)) => items' = items]_vars

(***************************************************************************)
(* C3: a call updateItem(id, "quantity", v) or updateItem(id, "rate", v)   *)
(* leaves every item with that id holding v in the named field, its old    *)
(* value in the other of the two, and total = quantity * rate of these.    *)
(***************************************************************************)
C3_TotalRecomputed ==
  [][\A id \in CallIds, field \in {"quantity", "rate"} :
       \A value \in FieldValues(field) :
         UpdateItem(id, field, value) =>
           /\ Len(items') = Len(items)
           /\ \A i \in Positions :
                items[i].id = id =>
                  /\ items'[i][field] = value
                  /\ field = "quantity" => items'[i].rate = items[i].rate
                  /\ field = "rate" => items'[i].quantity = items[i].quantity
                  /\ items'[i].total = items'[i].quantity * items'[i].rate]_vars

C3_Witness ==
  \E i \in Positions :
    items[i].quantity = 10 /\ items[i].rate = 25 /\ items[i].total = 250

(***************************************************************************)
(* C4: in every reachable state, whatever field updateItem was called on,  *)
(* every item has total = quantity * rate.                                 *)
(***************************************************************************)
C4_TotalIsProduct ==
  \A i \in Positions : items[i].total = items[i].quantity * items[i].rate

(***************************************************************************)
(* C5: in every reachable state the subtotal of the last render is the sum *)
(* of the total fields of the items now in the collection.                 *)
(***************************************************************************)
C5_SubtotalIsSum == view.subtotal = SumOfTotals(Len(items))

C5_Witness ==
  /\ Len(items) = 2
  /\ items[1].total = 7
  /\ items[2].total = 250
  /\ items[1].quantity * items[1].rate # 7
  /\ view.subtotal = 257

(***************************************************************************)
(* C6: with the tax rate and the discount in [0,100], the paid amount not  *)
(* negative and no negative item total, the render holds                   *)
(* taxAmount = subtotal * taxRate / 100,                                   *)
(* discountAmount = subtotal * discount / 100,                             *)
(* total = subtotal + taxAmount - discountAmount and                       *)
(* balanceDue = total - paidAmount; one item with quantity 10 and rate 25, *)
(* tax 10, discount 5 and 50 paid gives 250, 25, 12.5, 262.5 and 212.5.    *)
(* The four derived amounts are stated in hundredths.                      *)
(***************************************************************************)
\* The number a form value stands for, read off a table of the texts used.
Entered(v) ==
  IF v.t = "number" THEN v.n
  ELSE CASE v.s = <<>> -> 0
         [] v.s = <<"5">> -> 5
         [] v.s = <<"1", "0">> -> 10
         [] v.s = <<"5", "0">> -> 50
         [] v.s = <<"1", "0", "0">> -> 100

C6_ValidInputs ==
  /\ Entered(form.taxRate) \in 0..100
  /\ Entered(form.discount) \in 0..100
  /\ Entered(form.paidAmount) >= 0
  /\ \A i \in Positions : items[i].total >= 0

C6_Example ==
  /\ Len(items) = 1
  /\ items[1].quantity = 10
  /\ items[1].rate = 25
  /\ form.taxRate = Str(<<"1", "0">>)
  /\ form.discount = Str(<<"5">>)
  /\ form.paidAmount = Str(<<"5", "0">>)

C6_DerivedValues ==
  /\ C6_ValidInputs =>
       /\ view.taxAmount = SumOfTotals(Len(items)) * Entered(form.taxRate)
       /\ view.discountAmount = SumOfTotals(Len(items)) * Entered(form.discount)
       /\ view.total =
            100 * SumOfTotals(Len(items)) + view.taxAmount - view.discountAmount
       /\ view.balanceDue = view.total - 100 * Entered(form.paidAmount)
  /\ C6_Example =>
       view = [subtotal |-> 250, taxAmount |-> 2500, discountAmount |-> 1250,
               total |-> 26250, balanceDue |-> 21250]

C6_Witness == C6_Example /\ view.balanceDue = 21250

(***************************************************************************)
(* C7 as the specification states it: addItem grows the collection by one  *)
(* item, and the new item has quantity 0, rate 0 and total 0.              *)
(***************************************************************************)
C7_AddZeroed ==
  [][AddItem =>
       /\ Len(items') = Len(items) + 1
       /\ items'[Len(items')].quantity = 0
       /\ items'[Len(items')].rate = 0
       /\ items'[Len(items')].total = 0]_vars

(***************************************************************************)
(* C7, amended: addItem grows the collection by one item, and the new item *)
(* has quantity 1, rate 0 and total 0.                                     *)
(***************************************************************************)
C7_AddDefaultItem ==
  [][AddItem =>
       /\ Len(items') = Len(items) + 1
       /\ items'[Len(items')].quantity = 1
       /\ items'[Len(items')].rate = 0
       /\ items'[Len(items')].total = 0]_vars

C7_Witness ==
  /\ Len(items) = 2
  /\ items[2].id = nextId - 1
  /\ items[2].quantity = 1
  /\ items[2].rate = 0
  /\ items[2].total = 0

(***************************************************************************)
(* C8: addItem leaves every item that was in the collection in its place   *)
(* with the same field values, and puts the new item last.                 *)
(***************************************************************************)
C8_AddKeepsOthers ==
  [][AddItem =>
       /\ Len(items') = Len(items) + 1
       /\ \A i \in Positions : items'[i] = items[i]
       /\ items'[Len(items')].id = nextId]_vars

C8_Witness ==
  /\ Len(items) = 2
  /\ items[1].quantity = 10
  /\ items[1].serviceType = "SEO"
  /\ items[2].id = nextId - 1
  /\ items[2].id > items[1].id
  /\ items[2].serviceType = "Website Development"

(***************************************************************************)
(* C9: no two items of the collection share an id, the id that addItem     *)
(* gives the new item is the id of no item of the collection, and no call  *)
(* of updateItem, on whatever field, changes the id of an item.            *)
(***************************************************************************)
C9_IdsUniqueAndStable ==
  [][/\ \A i, j \in 1..Len(items') : items'[i].id = items'[j].id => i = j
     /\ AddItem => \A i \in Positions : items[i].id # items'[Len(items')].id
     /\ \A id \in CallIds, field \in ItemFields :
          \A value \in FieldValues(field) :
            UpdateItem(id, field, value) =>
              /\ Len(items') = Len(items)
              /\ \A i \in Positions : items'[i].id = items[i].id]_vars

(***************************************************************************)
(* C10: updateItem(id, field, value) changes, in the items whose id is id, *)
(* the named field and, when that is quantity or rate, the total; every    *)
(* other field and every other item keeps its value, the number and the    *)
(* order of the items are unchanged, and a call with an id of no item      *)
(* leaves the collection unchanged.                                        *)
(***************************************************************************)
C10_Touched(field) ==
  IF field \in {"quantity", "rate"} THEN {field, "total"} ELSE {field}

C10_UpdateFrame ==
  [][\A id \in CallIds, field \in ItemFields :
       \A value \in FieldValues(field) :
         UpdateItem(id, field, value) =>
           /\ Len(items') = Len(items)
           /\ \A i \in Positions :
                IF items[i].id = id
                THEN /\ items'[i][field] = value
                     /\ \A g \in ItemFields \ C10_Touched(field) :
                          items'[i][g] = items[i][g]
                ELSE items'[i] = items[i]
           /\ (\A i \in Positions : items[i].id # id) => items' = items]_vars

C10_Witness ==
  /\ Len(items) = 2
  /\ items[1].id = 0
  /\ items[1].rate = 25
  /\ items[1].total = 25
  /\ items[1].description = "Landing page"
  /\ items[2].rate = 0
  /\ items[2].description = ""

C12_ResetDraft ==
  [][ResetForm => (form' = defaultValues /\ pricingMode' = "hourly")]_vars

(***************************************************************************)
(* C13: the text formatCurrency returns is determined by the amount and    *)
(* the currency code: the symbol of the code ($ for USD, the euro, pound   *)
(* and rupee signs for EUR, GBP and PKR, $ for any other code), then the   *)
(* amount with exactly two decimals, an amount that is undefined or not a  *)
(* number counting as 0; 0 in USD gives "$0.00", 1234.5 in EUR gives       *)
(* "€1234.50".                                                             *)
(***************************************************************************)
C13_Symbol(code) ==
  IF code = "EUR" THEN "€"
  ELSE IF code = "GBP" THEN "£"
  ELSE IF code = "PKR" THEN "₨"
  ELSE "$"

\* h hundredths written with two decimals, digit by digit
C13_TwoDecimals(h) ==
  IF h < 0
  THEN "-" \o ToString((0 - h) \div 100) \o "." \o ToString(((0 - h) \div 10) % 10)
       \o ToString((0 - h) % 10)
  ELSE ToString(h \div 100) \o "." \o ToString((h \div 10) % 10) \o ToString(h % 10)

C13_Expected(amount, code) ==
  C13_Symbol(code) \o
  (IF amount.t = "number" THEN C13_TwoDecimals(amount.n) ELSE "0.00")

C13_FormatCurrency ==
  formatted.called =>
    /\ formatted.text = C13_Expected(formatted.amount, formatted.currency)
    /\ (formatted.amount = Num(0) /\ formatted.currency = "USD")
         => formatted.text = "$0.00"
    /\ (formatted.amount = Num(123450) /\ formatted.currency = "EUR")
         => formatted.text = "€1234.50"
    /\ (formatted.amount = Num(5) /\ formatted.currency = "XYZ")
         => formatted.text = "$0.05"
    /\ (formatted.amount = undefinedValue /\ formatted.currency = "GBP")
         => formatted.text = "£0.00"
    /\ (formatted.amount = Str(<<"5", "0">>) /\ formatted.currency = "PKR")
         => formatted.text = "₨0.00"

C13_Witness ==
  /\ formatted.called
  /\ formatted.amount = Num(123450)
  /\ formatted.currency = "EUR"
  /\ formatted.text = "€1234.50"

(***************************************************************************)
(* C14: a submission is accepted, and the save acknowledged, exactly when  *)
(* every rule holds: client name of 2 characters or more, e-mail of        *)
(* address shape, phone of 10 or more, billing address of 5 or more,       *)
(* invoice number, dates and payment terms not empty, tax rate and         *)
(* discount within 0..100, paid amount not negative; a rejected submission *)
(* does not reach onSubmit and leaves the form values and the line items   *)
(* as they were.  C14_AcceptedIffRules is the statement with these rules   *)
(* only; C14_AcceptedIffSchema adds the rule the schema also has, that the *)
(* currency is not empty.                                                  *)
(***************************************************************************)
\* The number a text of the submitted form stands for, read off a table.
C14_Number(v) ==
  IF v.t = "number" THEN v.n
  ELSE CASE v.s = <<>> -> 0
         [] v.s = <<"5">> -> 5
         [] v.s = <<"5", "0">> -> 50
         [] v.s = <<"1", "0", "0">> -> 100
         [] v.s = <<"1", "0", "1">> -> 101
         [] v.s = <<"2", "0", "0">> -> 200
         [] v.s = <<"-", "5">> -> 0 - 5
         [] v.s = <<"-", "1">> -> 0 - 1

C14_RulesHold ==
  /\ form.clientName \notin {"", "A"}
  /\ form.email = <<"a", "@", "b", ".", "c", "o">>
  /\ form.phone = "1234567890"
  /\ form.billingAddress = "12345"
  /\ form.invoiceNumber # ""
  /\ form.invoiceDate # ""
  /\ form.dueDate # ""
  /\ form.paymentTerms # ""
  /\ C14_Number(form.taxRate) \in 0..100
  /\ C14_Number(form.discount) \in 0..100
  /\ C14_Number(form.paidAmount) >= 0

C14_Rejected ==
  /\ submitted' = "rejected"
  /\ errors' # {}
  /\ form' = form
  /\ items' = items

C15_UnsupportedRejected ==
  [][(HandleSubmit /\ form.currency \notin {"USD", "EUR", "GBP", "PKR"})
       => submitted' = "rejected"]_vars

(***************************************************************************)
(* C16: the pricing mode does not enter the arithmetic.  Switching it      *)
(* leaves every line item, every form value and every derived amount as    *)
(* they were, and in either mode the derived amounts are the same function *)
(* of the items and the form values alone, so two drafts that differ only  *)
(* in the mode have equal amounts after the same operations.               *)
(***************************************************************************)
C16_ModeFree ==
  LET sum == SumOfTotals(Len(items))
      tax == sum * Entered(form.taxRate)
      discount == sum * Entered(form.discount)
  IN view = [subtotal |-> sum,
             taxAmount |-> tax,
             discountAmount |-> discount,
             total |-> 100 * sum + tax - discount,
             balanceDue |-> 100 * sum + tax - discount
                              - 100 * Entered(form.paidAmount)]

C16_PricingModeNeutral ==
  /\ []C16_ModeFree
  /\ [][(\E checked \in BOOLEAN : SetPricingMode(checked))
          => (items' = items /\ form' = form /\ view' = view)]_vars

\* an item was priced while the mode was "item"
C16_Witness ==
  /\ pricingMode = "item"
  /\ Len(items) = 2
  /\ view.subtotal = 500
  /\ form.taxRate = Str(<<"1", "0">>)

(***************************************************************************)
(* C17: in every reachable state every line item has a quantity and a rate *)
(* that are not negative, whatever is typed into the quantity and rate     *)
(* inputs, negative numbers and unparseable text included.                 *)
(***************************************************************************)
C17_NonNegative ==
  \A i \in 1..Len(items) : items[i].quantity >= 0 /\ items[i].rate >= 0

(***************************************************************************)
(* C18: an export (the PDF render, the print, the mail) only proceeds      *)
(* while the form would pass validation: never with an empty client name   *)
(* or without a well-formed e-mail address, phone and billing address.     *)
(***************************************************************************)
C18_DraftValid ==
  /\ form.clientName = "Al"
  /\ form.email = <<"a", "@", "b", ".", "c", "o">>
  /\ form.phone = "+1 234 567 8900"
  /\ form.billingAddress = "123 Main St"
  /\ form.invoiceNumber # ""

C18_ExportsValidated ==
  [][(\/ EmailInvoice
      \/ PrintInvoice
      \/ GeneratePDF /\ activeTab = "preview"
      \/ \E i \in 1..MaxRenders : PdfSave(i)) => C18_DraftValid]_vars

(***************************************************************************)
(* C19: generatePDF called while the preview is not in the document (the   *)
(* Download PDF button of the edit tab) returns at once: no render is      *)
(* started, no file is saved, no error is set, and the items, the form     *)
(* values and everything else stay as they were.                           *)
(***************************************************************************)
C19_SilentNoOp ==
  [][(GeneratePDF /\ activeTab = "edit") =>
       /\ pdf'.pending = pdf.pending
       /\ pdf'.saved = pdf.saved
       /\ pdf'.returned
       /\ UNCHANGED <<items, nextId, form, view, closure, shell, errors,
                      submitted, mail, printed, formatted>>]_vars

\* the button of the edit tab was used on a filled-in form
C19_Witness ==
  /\ activeTab = "edit"
  /\ pdf = [pending |-> <<>>, saved |-> "none", returned |-> TRUE]
  /\ form.clientName = "Al"
  /\ errors = {}

(***************************************************************************)
(* C20: no line-item call is lost, with or without a render between two    *)
(* calls: addItem grows the current collection by one item and keeps what  *)
(* it held, updateItem keeps every item other than the one it names as it  *)
(* currently is and keeps the other fields of the one it names, and        *)
(* removeItem keeps every current item other than the one it names.        *)
(***************************************************************************)
C20_NoLostUpdate ==
  [][/\ AddItemCall =>
          /\ Len(items') = Len(items) + 1
          /\ \A i \in 1..Len(items) : items'[i] = items[i]
     /\ \A id \in CallIds, field \in BatchFields :
          \A value \in FieldValues(field) :
            UpdateItemCall(id, field, value) =>
              /\ Len(items') = Len(items)
              /\ \A i \in 1..Len(items) :
                   /\ items[i].id # id => items'[i] = items[i]
                   /\ \A other \in {"description", "serviceType"} \ {field} :
                        items'[i][other] = items[i][other]
     /\ \A id \in CallIds :
          RemoveItemCall(id) =>
            \A i \in 1..Len(items) :
              items[i].id # id => \E j \in 1..Len(items') : items'[j] = items[i]]_vars

(***************************************************************************)
(* C21: every PDF export that completes saves the file                     *)
(* Invoice-<invoiceNumber>.pdf, the invoice number being the one the       *)
(* preview showed when it was captured, also when the invoice number is    *)
(* edited while the render is pending.                                     *)
(***************************************************************************)
C21_NameMatchesSnapshot ==
  [][\A i \in 1..MaxRenders :
       PdfSave(i) => pdf'.saved = "Invoice-" \o pdf.pending[i] \o ".pdf"]_vars

(***************************************************************************)
(* C22: in every reachable state the Amount Paid figure of the payment     *)
(* summary is the formatted value of the paid amount that is subtracted    *)
(* from the total to give the balance due, whatever text was entered in    *)
(* the paid-amount input.  The amounts of the render are in hundredths.    *)
(***************************************************************************)
C22_PaidShownIsPaidSubtracted ==
  amountPaidRow(form) =
    C13_Expected(Num(view.total - view.balanceDue), form.currency)

====
